---------------------------- MODULE Spec2Model ----------------------------
(***************************************************************************)
(* A model of kagazkit's core: the Validator (validators.py) and the four  *)
(* PDFManager operations (actions.py); of two invocations of the           *)
(* operations at once (SpecPair); and of two parts of the GUI, the tools   *)
(* page (SpecTools) and the file list (SpecList).                          *)
(*                                                                         *)
(* A path is a sequence of components, a component (a file name) is a      *)
(* sequence of one-character strings, and a file's content is a sequence   *)
(* of bytes (0..255).  The filesystem is Disk0, the files present before   *)
(* any call, overlaid with `written`, the entries the operations created   *)
(* or overwrote.  The PDF and image libraries are outside the repository:  *)
(* each call into them either succeeds with the effect described at its    *)
(* definition or raises, and a raise is possible at every call.            *)
(***************************************************************************)
EXTENDS Integers, Sequences, FiniteSets, TLC

VARIABLES written, call, parked, tools_page, file_list, reference

vars == <<written, call, parked, tools_page, file_list, reference>>

\* what a step of the running call leaves alone
others == <<parked, tools_page, file_list, reference>>

(***************************************************************************)
(* Bounds of the model.                                                    *)
(***************************************************************************)
\* the longest list of input paths handed to merge_pdfs / convert_images_to_pdf
MaxLen == 2

(***************************************************************************)
(* File names and byte strings.                                            *)
(***************************************************************************)
N_a_pdf == <<"a", ".", "p", "d", "f">>
N_b_pdf == <<"b", ".", "p", "d", "f">>
N_z_pdf == <<"z", ".", "p", "d", "f">>
N_x_tar_pdf == <<"x", ".", "t", ".", "p", "d", "f">>
N_p_png == <<"p", ".", "p", "n", "g">>
N_q_PNG == <<"q", ".", "P", "N", "G">>
N_r_jpg == <<"r", ".", "j", "p", "g">>
N_s_jpeg == <<"s", ".", "j", "p", "e", "g">>
N_t_Jpg == <<"t", ".", "J", "p", "g">>
N_u_gif == <<"u", ".", "g", "i", "f">>
N_w_png == <<"w", ".", "p", "n", "g">>
N_dot_png == <<".", "p", "n", "g">>
N_png == <<"p", "n", "g">>
N_v_png_dot == <<"v", ".", "p", "n", "g", ".">>
N_out_pdf == <<"o", ".", "p", "d", "f">>

D_in == <<"i", "n">>
D_out == <<"o", "u", "t">>
D_new == <<"n", "e", "w">>
D_sub == <<"s", "u", "b">>
D_ro == <<"r", "o">>
D_probe == <<"p", "r">>
D_locked == <<"l", "k">>

\* b'%PDF'
SigPDF == <<37, 80, 68, 70>>
\* b'\x89PNG\r\n\x1a\n'
SigPNG == <<137, 80, 78, 71, 13, 10, 26, 10>>
\* b'\xff\xd8\xff'
SigJPEG == <<255, 216, 255>>


(***************************************************************************)
(* Sequence helpers.                                                       *)
(***************************************************************************)
\* bytes.startswith / the first n items of s (f.read(n) returns fewer at end of file)
Take(s, n) == SubSeq(s, 1, IF n < Len(s) THEN n ELSE Len(s))

StartsWith(s, prefix) ==
    /\ Len(prefix) <= Len(s)
    /\ SubSeq(s, 1, Len(prefix)) = prefix

\* str.rfind('.') as a 1-based index, 0 when there is no dot
RFindDot(name) ==
    LET dots == {i \in 1..Len(name) : name[i] = "."}
    IN  IF dots = {} THEN 0 ELSE CHOOSE i \in dots : \A j \in dots : j <= i

\* str.lower() on the letters the file names use
LowerChar(c) ==
    CASE c = "P" -> "p"
      [] c = "N" -> "n"
      [] c = "G" -> "g"
      [] c = "J" -> "j"
      [] c = "E" -> "e"
      [] c = "D" -> "d"
      [] c = "F" -> "f"
      [] OTHER -> c

Lower(s) == [i \in 1..Len(s) |-> LowerChar(s[i])]

\* str.lstrip('.')
RECURSIVE LStripDot(_)
LStripDot(s) ==
    IF s # <<>> /\ Head(s) = "." THEN LStripDot(Tail(s)) ELSE s

DigitChar(d) ==
    CASE d = 0 -> "0" [] d = 1 -> "1" [] d = 2 -> "2" [] d = 3 -> "3"
      [] d = 4 -> "4" [] d = 5 -> "5" [] d = 6 -> "6" [] d = 7 -> "7"
      [] d = 8 -> "8" [] d = 9 -> "9"

\* the decimal digits of a natural number, as the f-string formats {i+1}
RECURSIVE Str(_)
Str(n) ==
    IF n < 10 THEN <<DigitChar(n)>>
    ELSE Str(n \div 10) \o <<DigitChar(n % 10)>>

(***************************************************************************)
(* Paths (pathlib.Path as the code uses it).                               *)
(***************************************************************************)
\* Path.name
Name(p) == p[Len(p)]

\* Path.parent
Parent(p) == SubSeq(p, 1, Len(p) - 1)

\* Path.suffix: from the last dot of the name, unless the name starts or ends with it
Suffix(p) ==
    LET name == Name(p)
        i == RFindDot(name)
    IN  IF 1 < i /\ i < Len(name) THEN SubSeq(name, i, Len(name)) ELSE <<>>

\* Path.stem: the name without its suffix
Stem(p) ==
    LET name == Name(p)
        i == RFindDot(name)
    IN  IF 1 < i /\ i < Len(name) THEN SubSeq(name, 1, i - 1) ELSE name

\* a variant that numbers the page files from 0, as enumerate counts
PageFileMutNoOffset(out_dir, base_name, i) ==
    Append(out_dir, base_name \o <<"_", "p", "a", "g", "e", "_">> \o Str(i)
                              \o <<".", "p", "d", "f">>)

\* out_dir / f"{base_name}_page_{i+1}.pdf", i the 0-based index of enumerate
PageFile(out_dir, base_name, i) ==
    Append(out_dir, base_name \o <<"_", "p", "a", "g", "e", "_">> \o Str(i + 1)
                              \o <<".", "p", "d", "f">>)

(***************************************************************************)
(* The filesystem.                                                         *)
(***************************************************************************)
\* a directory; perm: entries may be created in it
Dir(perm) ==
    [kind |-> "dir", bytes |-> <<>>, perm |-> perm,
     parses |-> FALSE, pages |-> <<>>, mode |-> "none"]

\* a regular file; perm: it may be opened; parses/pages: what the PDF library
\* reads from it; mode: the colour mode the image library decodes it to
File(bytes, perm, parses, pages, mode) ==
    [kind |-> "file", bytes |-> bytes, perm |-> perm,
     parses |-> parses, pages |-> pages, mode |-> mode]

Page(src, no, rot) == [src |-> src, no |-> no, rot |-> rot]

\* a PDF document as the library writes it
PdfFile(pages) == File(SigPDF \o <<45>>, TRUE, TRUE, pages, "none")

\* what is left at the output path when a write fails after the file was opened
PartialFile == File(<<>>, TRUE, FALSE, <<>>, "none")

\* the contents of the probe files: every way of matching, missing, truncating
\* or following a signature
ProbeContents ==
    << <<>>,
       <<37, 80, 68>>,
       SigPDF,
       SigPDF \o <<45>>,
       SigPDF \o <<0>>,
       <<10>> \o SigPDF,
       <<37, 80, 68, 71>>,
       SigPNG,
       SigPNG \o <<0>>,
       SubSeq(SigPNG, 1, 7),
       SubSeq(SigPNG, 1, 7) \o <<11>>,
       SigJPEG,
       SigJPEG \o <<224>>,
       <<255, 216>>,
       <<255, 216, 254>> >>

ProbeNames ==
    {N_a_pdf, N_p_png, N_q_PNG, N_r_jpg, N_s_jpeg, N_t_Jpg, N_u_gif,
     N_dot_png, N_png, N_v_png_dot}

\* probe files: one directory per content, readable under D_probe and
\* unreadable (open raises OSError) under D_locked
ProbePaths ==
    {<<d, Str(k), n>> : d \in {D_probe, D_locked},
                        k \in 1..Len(ProbeContents), n \in ProbeNames}

ProbeDirs ==
    {<<d>> : d \in {D_probe, D_locked}}
    \cup {<<d, Str(k)>> : d \in {D_probe, D_locked}, k \in 1..Len(ProbeContents)}

\* well-formed inputs: PDFs with 2, 1, 0 and 1 pages, images of five colour modes
GoodFiles ==
    (<<D_in, N_a_pdf>> :> PdfFile(<<Page(<<D_in, N_a_pdf>>, 1, 0), Page(<<D_in, N_a_pdf>>, 2, 0)>>))
    @@ (<<D_in, N_b_pdf>> :> PdfFile(<<Page(<<D_in, N_b_pdf>>, 1, 90)>>))
    @@ (<<D_in, N_z_pdf>> :> PdfFile(<<>>))
    @@ (<<D_in, N_x_tar_pdf>> :> PdfFile(<<Page(<<D_in, N_x_tar_pdf>>, 1, 0)>>))
    @@ (<<D_in, N_p_png>> :> File(SigPNG \o <<0>>, TRUE, FALSE, <<>>, "RGBA"))
    @@ (<<D_in, N_q_PNG>> :> File(SigPNG \o <<0>>, TRUE, FALSE, <<>>, "RGB"))
    @@ (<<D_in, N_r_jpg>> :> File(SigJPEG \o <<224>>, TRUE, FALSE, <<>>, "L"))
    @@ (<<D_in, N_s_jpeg>> :> File(SigJPEG \o <<224>>, TRUE, FALSE, <<>>, "CMYK"))
    @@ (<<D_in, N_t_Jpg>> :> File(SigJPEG \o <<224>>, TRUE, FALSE, <<>>, "RGB"))
    @@ (<<D_in, N_w_png>> :> File(SigPNG \o <<0>>, TRUE, FALSE, <<>>, "P"))

\* the files present before any call
Disk0 ==
    [p \in ProbePaths |->
        File(ProbeContents[CHOOSE k \in 1..Len(ProbeContents) : Str(k) = p[2]],
             p[1] = D_probe, FALSE, <<>>, "none")]
    @@ [p \in ProbeDirs |-> Dir(TRUE)]
    @@ GoodFiles
    @@ (<<>> :> Dir(TRUE))
    @@ (<<D_in>> :> Dir(TRUE))
    @@ (<<D_out>> :> Dir(TRUE))
    @@ (<<D_ro>> :> Dir(FALSE))

\* The filesystem now is w @@ Disk0: what the operations wrote, over the
\* initial files.
\* Path.exists(), in the filesystem whose overlay is w
Exists(w, p) == p \in DOMAIN w \/ p \in DOMAIN Disk0

\* the entry at an existing path
Entry(w, p) == IF p \in DOMAIN w THEN w[p] ELSE Disk0[p]

\* Path.is_file()
IsFile(w, p) == Exists(w, p) /\ Entry(w, p).kind = "file"

IsDir(w, p) == Exists(w, p) /\ Entry(w, p).kind = "dir"

(***************************************************************************)
(* Exceptions and results.                                                 *)
(***************************************************************************)
\* an exception: its class, the parts of its message in order, and the path
\* (or extension) the message is about
Exc(cls, text, about) == [exc |-> cls, text |-> text, about |-> about]

NoExc == Exc("none", <<>>, <<>>)

FileValidationError(text, about) == Exc("FileValidationError", <<text>>, about)

\* a variant that lets the caught exception through as it is
PDFActionErrorMutReraise(prefix, e) == e

\* PDFActionError(f"{prefix}{e}")
PDFActionError(prefix, e) == Exc("PDFActionError", <<prefix>> \o e.text, e.about)

\* what a validator gives back: True, or the exception it raises
Valid == [ok |-> TRUE, err |-> NoExc]

Raises(e) == [ok |-> FALSE, err |-> e]

(***************************************************************************)
(* Validator (validators.py).                                              *)
(***************************************************************************)
MagicKeys == {<<"p", "d", "f">>, <<"p", "n", "g">>, <<"j", "p", "g">>,
              <<"j", "p", "e", "g">>}

\* Validator.MAGIC_NUMBERS
MAGIC_NUMBERS(key) ==
    CASE key = <<"p", "d", "f">> -> SigPDF
      [] key = <<"p", "n", "g">> -> SigPNG
      [] key = <<"j", "p", "g">> -> SigJPEG
      [] key = <<"j", "p", "e", "g">> -> SigJPEG

\* the extensions validate_image accepts
ImageExts == {<<"p", "n", "g">>, <<"j", "p", "g">>, <<"j", "p", "e", "g">>}

\* a variant without the is_file check
validate_fileMutNoIsFile(fs, file_path) ==
    IF ~Exists(fs, file_path)
    THEN Raises(FileValidationError("File not found: ", file_path))
    ELSE Valid

validate_file(fs, file_path) ==
    IF ~Exists(fs, file_path)
    THEN Raises(FileValidationError("File not found: ", file_path))
    ELSE IF ~IsFile(fs, file_path)
    THEN Raises(FileValidationError("Path is not a file: ", file_path))
    ELSE Valid

\* a variant that compares only the first three bytes of the header
validate_pdfMutShortMagic(fs, file_path) ==
    LET f == validate_file(fs, file_path)
    IN  IF ~f.ok THEN f
        ELSE IF ~Entry(fs, file_path).perm
        THEN Raises(FileValidationError("Error reading file ", file_path))
        ELSE IF ~StartsWith(Take(Entry(fs, file_path).bytes, 4), Take(MAGIC_NUMBERS(<<"p", "d", "f">>), 3))
        THEN Raises(FileValidationError("Invalid PDF file header: ", file_path))
        ELSE Valid

validate_pdf(fs, file_path) ==
    LET f == validate_file(fs, file_path)
    IN  IF ~f.ok THEN f
        ELSE IF ~Entry(fs, file_path).perm
        THEN Raises(FileValidationError("Error reading file ", file_path))
        ELSE IF ~StartsWith(Take(Entry(fs, file_path).bytes, 4), MAGIC_NUMBERS(<<"p", "d", "f">>))
        THEN Raises(FileValidationError("Invalid PDF file header: ", file_path))
        ELSE Valid

\* a variant that compares the extension without lower-casing it
validate_imageMutCase(fs, file_path) ==
    LET f == validate_file(fs, file_path)
        ext == LStripDot(Suffix(file_path))
    IN  IF ~f.ok THEN f
        ELSE IF ext \notin ImageExts
        THEN Raises(FileValidationError("Unsupported image extension: ", <<ext>>))
        ELSE IF ext \notin MagicKeys
        THEN Raises(FileValidationError("Unsupported image type: ", <<ext>>))
        ELSE IF ~Entry(fs, file_path).perm
        THEN Raises(FileValidationError("Error reading file ", file_path))
        ELSE IF ~StartsWith(Take(Entry(fs, file_path).bytes, Len(MAGIC_NUMBERS(ext))),
                            MAGIC_NUMBERS(ext))
        THEN Raises(FileValidationError("Invalid {EXT} file header: ", file_path))
        ELSE Valid

validate_image(fs, file_path) ==
    LET f == validate_file(fs, file_path)
        ext == LStripDot(Lower(Suffix(file_path)))
    IN  IF ~f.ok THEN f
        ELSE IF ext \notin ImageExts
        THEN Raises(FileValidationError("Unsupported image extension: ", <<ext>>))
        ELSE IF ext \notin MagicKeys
        THEN Raises(FileValidationError("Unsupported image type: ", <<ext>>))
        ELSE IF ~Entry(fs, file_path).perm
        THEN Raises(FileValidationError("Error reading file ", file_path))
        ELSE IF ~StartsWith(Take(Entry(fs, file_path).bytes, Len(MAGIC_NUMBERS(ext))),
                            MAGIC_NUMBERS(ext))
        THEN Raises(FileValidationError("Invalid {EXT} file header: ", file_path))
        ELSE Valid

\* validate_paths: the paths in order, stopping at the first that raises.
\* value: the validated paths; inspected: the paths a validator was applied to
RECURSIVE validate_paths_from(_, _, _, _, _)
validate_paths_from(fs, paths, file_type, validated, inspected) ==
    IF paths = <<>>
    THEN [ok |-> TRUE, err |-> NoExc, value |-> validated, inspected |-> inspected]
    ELSE LET p == Head(paths)
             r == CASE file_type = "pdf" -> validate_pdf(fs, p)
                    [] file_type = "image" -> validate_image(fs, p)
                    [] OTHER -> Valid
             seen == IF file_type \in {"pdf", "image"}
                     THEN Append(inspected, p) ELSE inspected
         IN  IF ~r.ok
             THEN [ok |-> FALSE, err |-> r.err, value |-> <<>>, inspected |-> seen]
             ELSE validate_paths_from(fs, Tail(paths), file_type,
                                      Append(validated, p), seen)

\* a variant that applies the validator to every path before raising the
\* first error
validate_pathsMutInspectAll(fs, paths, file_type) ==
    LET r == validate_paths_from(fs, paths, file_type, <<>>, <<>>)
    IN  [r EXCEPT !.inspected = IF file_type \in {"pdf", "image"}
                                THEN paths ELSE <<>>]

validate_paths(fs, paths, file_type) ==
    validate_paths_from(fs, paths, file_type, <<>>, <<>>)

(***************************************************************************)
(* Filesystem effects of the operations.                                   *)
(***************************************************************************)
\* a variant without parents=True: a missing parent makes it raise
MkdirMutNoParents(w, p) ==
    IF IsDir(w, p) THEN [ok |-> TRUE, w |-> w]
    ELSE IF Exists(w, p) \/ ~IsDir(w, Parent(p)) \/ ~Entry(w, Parent(p)).perm
    THEN [ok |-> FALSE, w |-> w]
    ELSE [ok |-> TRUE, w |-> (p :> Dir(TRUE)) @@ w]

\* Path.mkdir(parents=True, exist_ok=True) on the overlay w: the new overlay,
\* or a raise when the path or an ancestor is not a directory or the nearest
\* existing ancestor does not allow creating entries.  Ancestors created
\* before the raise stay.
RECURSIVE Mkdir(_, _)
Mkdir(w, p) ==
    IF IsDir(w, p) THEN [ok |-> TRUE, w |-> w]
    ELSE IF Exists(w, p) THEN [ok |-> FALSE, w |-> w]
    ELSE LET up == Mkdir(w, Parent(p))
         IN  IF ~up.ok \/ ~Entry(up.w, Parent(p)).perm
             THEN [ok |-> FALSE, w |-> up.w]
             ELSE [ok |-> TRUE, w |-> (p :> Dir(TRUE)) @@ up.w]

\* open(path, "wb") succeeds: the parent is a directory, and the path is free
\* there or is a file that may be opened
CanOpenForWrite(fs, p) ==
    /\ p # <<>>
    /\ IsDir(fs, Parent(p))
    /\ IF Exists(fs, p) THEN IsFile(fs, p) /\ Entry(fs, p).perm ELSE Entry(fs, Parent(p)).perm

\* the overlay after a document was written to p
WriteFile(w, p, file) == (p :> file) @@ w

\* whether a library call raises: it must when the call cannot succeed, and
\* it may in any case
LibRaises(mustFail) == IF mustFail THEN {TRUE} ELSE BOOLEAN

(***************************************************************************)
(* The invocation in progress.                                             *)
(***************************************************************************)
\* one call of the library, as the operation made it
LibCall(f, path, arg) == [f |-> f, path |-> path, arg |-> arg]

IdleCall ==
    [op |-> "none", pc |-> "idle",
     paths |-> <<>>, out |-> <<>>, rotation |-> 0, file_type |-> "none",
     validated |-> <<>>, inspected |-> <<>>, i |-> 0,
     merger |-> <<>>, handles |-> <<>>, images |-> <<>>,
     reader |-> <<>>, writer |-> <<>>, generated |-> <<>>,
     log |-> <<>>,
     status |-> "none", value |-> <<>>, err |-> NoExc]

\* the call returns `value`
Returned(c, value) == [c EXCEPT !.pc = "done", !.status = "returned", !.value = value]

\* the call raises `e`
Raised(c, e) == [c EXCEPT !.pc = "done", !.status = "raised", !.err = e]

Logged(c, f, path, arg) == [c EXCEPT !.log = Append(@, LibCall(f, path, arg))]

\* the tools page after ToolsPage.__init__ (tools_page.py 10-40): no handler
\* is running, the rotation radio buttons show 90
PageIdle ==
    [pc |-> "idle", handler |-> "none", file |-> <<>>, output |-> <<>>,
     rotation_var |-> 90, invoked |-> 0, messages |-> <<>>]

\* the file list after FileList.__init__ (file_list.py 43-45): file_items is
\* the list of the items, packed the items in the order they are displayed
EmptyList == [file_items |-> <<>>, packed |-> <<>>]

Init ==
    /\ written = << >>
    /\ call = IdleCall
    /\ parked = IdleCall
    /\ tools_page = PageIdle
    /\ file_list = EmptyList
    /\ reference = <<>>

(***************************************************************************)
(* The inputs the calls are made with.                                     *)
(***************************************************************************)
\* every path of the initial filesystem, and two paths that do not exist
ValidatorInputs == DOMAIN Disk0 \cup {<<D_out, N_a_pdf>>, <<D_out, N_p_png>>}

\* PDFs that parse, a file with the signature that does not parse, a file
\* without it, an unreadable file, a missing path, a directory
PdfCandidates ==
    {<<D_in, N_a_pdf>>, <<D_in, N_b_pdf>>, <<D_in, N_z_pdf>>, <<D_in, N_x_tar_pdf>>,
     <<D_probe, Str(4), N_a_pdf>>, <<D_probe, Str(2), N_a_pdf>>,
     <<D_locked, Str(3), N_a_pdf>>, <<D_out, N_a_pdf>>, <<D_in>>}

\* images of each colour mode, a file with the signature that does not decode,
\* a signature of the other type, an unsupported extension, a missing path
ImageCandidates ==
    {<<D_in, N_p_png>>, <<D_in, N_q_PNG>>, <<D_in, N_r_jpg>>, <<D_in, N_s_jpeg>>,
     <<D_in, N_w_png>>, <<D_probe, Str(8), N_p_png>>, <<D_probe, Str(12), N_p_png>>,
     <<D_probe, Str(8), N_u_gif>>, <<D_out, N_p_png>>}

\* output files: in an existing directory, under missing directories, in a
\* directory that allows no new entries, under a regular file, and under a
\* missing directory that cannot be created
OutPaths ==
    {<<D_out, N_out_pdf>>, <<D_new, D_sub, N_out_pdf>>, <<D_ro, N_out_pdf>>,
     <<D_in, N_b_pdf, N_out_pdf>>, <<D_ro, D_sub, N_out_pdf>>}

\* output directories of split_pdf, likewise; <<D_in, N_b_pdf>> is a regular file
OutDirs ==
    {<<D_out>>, <<D_new, D_sub>>, <<D_ro>>, <<D_in, N_b_pdf>>, <<D_ro, D_sub>>}

Rotations == {90, -90, 45}

FileTypes == {"pdf", "image", "docx"}

\* every list of at most n items of S
RECURSIVE Lists(_, _)
Lists(S, n) ==
    IF n = 0 THEN {<<>>}
    ELSE Lists(S, n - 1) \cup {Append(l, x) : l \in {m \in Lists(S, n - 1) : Len(m) = n - 1}, x \in S}

(***************************************************************************)
(* Validator calls made directly.                                          *)
(***************************************************************************)
\* a variant with a merger shared by the invocations: a new invocation starts
\* with what the waiting one has appended
StartedMutSharedMerger(op) == [IdleCall EXCEPT !.op = op, !.merger = parked.merger]

Started(op) == [IdleCall EXCEPT !.op = op]

Outcome(c, r) == IF r.ok THEN Returned(c, <<TRUE>>) ELSE Raised(c, r.err)

ValidateFile(file_path) ==
    /\ call.pc = "idle"
    /\ call' = Outcome([Started("validate_file") EXCEPT !.paths = <<file_path>>],
                       validate_file(written, file_path))
    /\ UNCHANGED written

ValidatePdf(file_path) ==
    /\ call.pc = "idle"
    /\ call' = Outcome([Started("validate_pdf") EXCEPT !.paths = <<file_path>>],
                       validate_pdf(written, file_path))
    /\ UNCHANGED written

ValidateImage(file_path) ==
    /\ call.pc = "idle"
    /\ call' = Outcome([Started("validate_image") EXCEPT !.paths = <<file_path>>],
                       validate_image(written, file_path))
    /\ UNCHANGED written

ValidatePaths(paths, file_type) ==
    /\ call.pc = "idle"
    /\ LET r == validate_paths(written, paths, file_type)
           c == [Started("validate_paths") EXCEPT !.paths = paths,
                                                  !.file_type = file_type,
                                                  !.inspected = r.inspected]
       IN  call' = IF r.ok THEN Returned(c, r.value) ELSE Raised(c, r.err)
    /\ UNCHANGED written

(***************************************************************************)
(* PDFManager.merge_pdfs (actions.py 20-60).                               *)
(***************************************************************************)
\* a variant that puts the document's pages before those appended earlier
AppendedMutFront(merger, pages) == pages \o merger

\* a variant that refuses an empty list, as convert_images_to_pdf does
MergeValidatedMutRejectEmpty(c, validated) ==
    IF validated = <<>>
    THEN Raised(c, Exc("PDFActionError", <<"No valid PDFs provided.">>, <<>>))
    ELSE [c EXCEPT !.validated = validated, !.i = 1, !.pc = "merge_append"]

\* the merger after merger.append(str(path)): the document's pages follow
\* those appended before
Appended(merger, pages) == merger \o pages

\* lines 41-44: with the inputs validated, merger = PdfMerger() and the loop
\* over validated_paths begins; an empty list goes straight past it
MergeValidated(c, validated) ==
    [c EXCEPT !.validated = validated, !.i = 1,
              !.pc = IF validated = <<>> THEN "merge_mkdir" ELSE "merge_append"]

\* lines 36-41: validate the inputs, then create the merger
MergeStart(file_paths, output_path) ==
    /\ call.pc = "idle"
    /\ LET r == validate_paths(written, file_paths, "pdf")
           c == [Started("merge_pdfs") EXCEPT !.paths = file_paths,
                                              !.out = output_path,
                                              !.file_type = "pdf",
                                              !.inspected = r.inspected]
       IN  call' = IF ~r.ok
                   THEN Raised(c, PDFActionError("Validation failed: ", r.err))
                   ELSE MergeValidated(c, r.value)
    /\ UNCHANGED written

\* lines 44-45: merger.append(str(path)), which reads the whole document
MergeAppend ==
    /\ call.pc = "merge_append"
    /\ LET path == call.validated[call.i]
           fs == written
           c == Logged(call, "append", path, 0)
       IN  \E raise \in LibRaises(~IsFile(fs, path) \/ ~Entry(fs, path).parses) :
              call' = IF raise
                      THEN [c EXCEPT !.pc = "merge_except"]
                      ELSE [c EXCEPT !.merger = Appended(@, Entry(fs, path).pages),
                                     !.i = @ + 1,
                                     !.pc = IF call.i = Len(call.validated)
                                            THEN "merge_mkdir" ELSE "merge_append"]
    /\ UNCHANGED written

\* lines 47-49: output_path.parent.mkdir(parents=True, exist_ok=True)
MergeMkdir ==
    /\ call.pc = "merge_mkdir"
    /\ LET m == Mkdir(written, Parent(call.out))
           c == Logged(call, "mkdir", Parent(call.out), 0)
       IN  /\ written' = m.w
           /\ call' = [c EXCEPT !.pc = IF m.ok THEN "merge_write" ELSE "merge_except"]

\* line 51: merger.write(str(output_path)); a raise after the file was opened
\* leaves a partial file
MergeWrite ==
    /\ call.pc = "merge_write"
    /\ LET c == Logged(call, "write", call.out, 0)
           can == CanOpenForWrite(written, call.out)
       IN  \E raise \in LibRaises(~can) :
              /\ written' = IF ~can THEN written
                            ELSE WriteFile(written, call.out,
                                           IF raise THEN PartialFile
                                           ELSE PdfFile(call.merger))
              /\ call' = [c EXCEPT !.pc = IF raise THEN "merge_except"
                                          ELSE "merge_close"]

\* lines 52-53: merger.close(); return output_path
MergeClose ==
    /\ call.pc = "merge_close"
    /\ LET c == Logged(call, "close", <<>>, 0)
       IN  \E raise \in BOOLEAN :
              call' = IF raise THEN [c EXCEPT !.pc = "merge_except"]
                      ELSE Returned(c, <<call.out>>)
    /\ UNCHANGED written

\* a variant whose close is not guarded: an error of the close replaces the
\* error being handled
MergeExceptMutCloseEscapes ==
    /\ call.pc = "merge_except"
    /\ \E closeRaises \in BOOLEAN :
          call' = IF closeRaises
                  THEN Raised(Logged(call, "close", <<>>, 1),
                              Exc("Exception", <<"close">>, <<>>))
                  ELSE Raised(Logged(call, "close", <<>>, 0),
                              PDFActionError("Failed to merge PDFs: ",
                                             Exc("Exception", <<call.log[Len(call.log)].f>>, <<>>)))
    /\ UNCHANGED written

\* lines 55-60: close the merger, whatever that close does, and raise
MergeExcept ==
    /\ call.pc = "merge_except"
    /\ \E closeRaises \in BOOLEAN :
          call' = Raised(Logged(call, "close", <<>>, IF closeRaises THEN 1 ELSE 0),
                         PDFActionError("Failed to merge PDFs: ",
                                        Exc("Exception", <<call.log[Len(call.log)].f>>, <<>>)))
    /\ UNCHANGED written

(***************************************************************************)
(* PDFManager.convert_images_to_pdf (actions.py 63-116).                   *)
(***************************************************************************)
\* a decoded image: the file it came from, its colour mode, how often it was
\* closed, and whether Image.open or Image.convert made it
Handle(path, mode, via) == [path |-> path, mode |-> mode, closes |-> 0, via |-> via]

\* line 116: every raise inside the try becomes a PDFActionError
ConvertFailed(c, what) ==
    Raised(c, PDFActionError("Failed to convert images to PDF: ",
                             Exc("Exception", <<what>>, <<>>)))

\* the loop of lines 88-92 moves on to the next path, or leaves the loop
ConvertAdvance(c) ==
    [c EXCEPT !.i = @ + 1,
              !.pc = IF c.i = Len(c.validated) THEN "convert_mkdir"
                     ELSE "convert_open"]

\* a variant that converts only images with an alpha channel
NeedsConvertMutAlphaOnly(mode) == mode = "RGBA"

\* a variant that also refuses a list of one image
NoImagesMutOne(validated_paths) == Len(validated_paths) <= 1

\* line 90: the image has to be converted
NeedsConvert(mode) == mode # "RGB"

\* line 82: if not validated_paths
NoImages(validated_paths) == validated_paths = <<>>

\* lines 77-83: validate the inputs; an empty list is refused
ConvertStart(image_paths, output_path) ==
    /\ call.pc = "idle"
    /\ LET r == validate_paths(written, image_paths, "image")
           c == [Started("convert_images_to_pdf") EXCEPT !.paths = image_paths,
                                                         !.out = output_path,
                                                         !.file_type = "image",
                                                         !.inspected = r.inspected]
       IN  call' = IF ~r.ok
                   THEN Raised(c, PDFActionError("Validation failed: ", r.err))
                   ELSE IF NoImages(r.value)
                   THEN Raised(c, Exc("PDFActionError", <<"No valid images provided.">>, <<>>))
                   ELSE [c EXCEPT !.validated = r.value, !.i = 1, !.pc = "convert_open"]
    /\ UNCHANGED written

\* lines 89-90, 92: img = Image.open(path); an RGB image goes into the list
ConvertOpen ==
    /\ call.pc = "convert_open"
    /\ LET path == call.validated[call.i]
           c == Logged(call, "open", path, 0)
           mode == Entry(written, path).mode
       IN  \E raise \in LibRaises(~IsFile(written, path) \/ mode = "none") :
              call' = IF raise THEN ConvertFailed(c, "open")
                      ELSE LET h == [c EXCEPT !.handles = Append(@, Handle(path, mode, "open"))]
                           IN  IF NeedsConvert(mode)
                               THEN [h EXCEPT !.pc = "convert_convert"]
                               ELSE ConvertAdvance([h EXCEPT !.images = Append(@, Len(h.handles))])
    /\ UNCHANGED written

\* lines 91-92: img = img.convert('RGB'); the copy goes into the list
ConvertConvert ==
    /\ call.pc = "convert_convert"
    /\ LET path == call.validated[call.i]
           c == Logged(call, "convert", path, 0)
       IN  \E raise \in BOOLEAN :
              call' = IF raise THEN ConvertFailed(c, "convert")
                      ELSE LET h == [c EXCEPT !.handles = Append(@, Handle(path, "RGB", "convert"))]
                           IN  ConvertAdvance([h EXCEPT !.images = Append(@, Len(h.handles))])
    /\ UNCHANGED written

\* lines 98-99: output_path.parent.mkdir(parents=True, exist_ok=True)
ConvertMkdir ==
    /\ call.pc = "convert_mkdir"
    /\ LET m == Mkdir(written, Parent(call.out))
           c == Logged(call, "mkdir", Parent(call.out), 0)
       IN  /\ written' = m.w
           /\ call' = IF m.ok THEN [c EXCEPT !.pc = "convert_save"]
                      ELSE ConvertFailed(c, "mkdir")

\* a variant that passes the whole list as append_images
RestImagesMutAll(images) == images

\* line 96: rest_images = images[1:]
RestImages(images) == SubSeq(images, 2, Len(images))

\* lines 101-107: the document first_image.save(save_all=True,
\* append_images=rest_images) writes: a page of the base image, then one page
\* per appended image in the order of the list
SavedPages(handles, first_image, rest_images) ==
    [k \in 1..(1 + Len(rest_images)) |->
        Page(handles[(<<first_image>> \o rest_images)[k]].path, 1, 0)]

\* lines 95-107: first_image = images[0]; rest_images = images[1:];
\* first_image.save(output, "PDF", save_all=True, append_images=rest_images)
ConvertSave ==
    /\ call.pc = "convert_save"
    /\ LET first_image == call.images[1]
           rest_images == RestImages(call.images)
           c == Logged(call, "save", call.out, Len(rest_images))
           can == CanOpenForWrite(written, call.out)
           doc == SavedPages(call.handles, first_image, rest_images)
       IN  \E raise \in LibRaises(~can) :
              /\ written' = IF ~can THEN written
                            ELSE WriteFile(written, call.out,
                                           IF raise THEN PartialFile ELSE PdfFile(doc))
              /\ call' = IF raise THEN ConvertFailed(c, "save")
                         ELSE [c EXCEPT !.pc = "convert_close"]

\* lines 110-113: close every image of the list; return output_path
ConvertClose ==
    /\ call.pc = "convert_close"
    /\ call' = Returned([call EXCEPT !.handles =
                             [h \in 1..Len(call.handles) |->
                                 IF \E k \in 1..Len(call.images) : call.images[k] = h
                                 THEN [call.handles[h] EXCEPT !.closes = @ + 1]
                                 ELSE call.handles[h]]],
                        <<call.out>>)
    /\ UNCHANGED written

(***************************************************************************)
(* PDFManager.split_pdf (actions.py 119-158).                              *)
(***************************************************************************)
\* a variant that recovers from the failure by returning the files
\* generated so far
SplitFailedMutPartial(c, what) == Returned(c, c.generated)

SplitFailed(c, what) ==
    Raised(c, PDFActionError("Failed to split PDF: ", Exc("Exception", <<what>>, <<>>)))

\* a variant that creates the output directory before validating the input
SplitStartMutMkdirFirst(file_path, output_dir) ==
    /\ call.pc = "idle"
    /\ LET m == Mkdir(written, output_dir)
           r == validate_pdf(m.w, file_path)
           c == Logged([Started("split_pdf") EXCEPT !.paths = <<file_path>>,
                                                    !.out = output_dir,
                                                    !.file_type = "pdf",
                                                    !.inspected = <<file_path>>],
                       "mkdir", output_dir, 0)
       IN  /\ written' = m.w
           /\ call' = IF ~m.ok
                      THEN Raised(c, Exc("OSError", <<"mkdir">>, output_dir))
                      ELSE IF ~r.ok
                      THEN Raised(c, PDFActionError("Validation failed: ", r.err))
                      ELSE [c EXCEPT !.validated = <<file_path>>, !.pc = "split_read"]

\* lines 130-133: validate the input
SplitStart(file_path, output_dir) ==
    /\ call.pc = "idle"
    /\ LET r == validate_pdf(written, file_path)
           c == [Started("split_pdf") EXCEPT !.paths = <<file_path>>,
                                             !.out = output_dir,
                                             !.file_type = "pdf",
                                             !.inspected = <<file_path>>]
       IN  call' = IF ~r.ok
                   THEN Raised(c, PDFActionError("Validation failed: ", r.err))
                   ELSE [c EXCEPT !.validated = <<file_path>>, !.pc = "split_mkdir"]
    /\ UNCHANGED written

\* lines 135-137: out_dir.mkdir(parents=True, exist_ok=True), outside any try:
\* what it raises reaches the caller as it is
SplitMkdir ==
    /\ call.pc = "split_mkdir"
    /\ LET m == Mkdir(written, call.out)
           c == Logged(call, "mkdir", call.out, 0)
       IN  /\ written' = m.w
           /\ call' = IF m.ok THEN [c EXCEPT !.pc = "split_read"]
                      ELSE Raised(c, Exc("OSError", <<"mkdir">>, call.out))

\* lines 142-145: reader = PdfReader(src_path); reader.pages
SplitRead ==
    /\ call.pc = "split_read"
    /\ LET path == call.paths[1]
           c == Logged(call, "read", path, 0)
       IN  \E raise \in LibRaises(~IsFile(written, path) \/ ~Entry(written, path).parses) :
              call' = IF raise THEN SplitFailed(c, "read")
                      ELSE IF Entry(written, path).pages = <<>>
                      THEN Returned(c, <<>>)
                      ELSE [c EXCEPT !.reader = Entry(written, path).pages,
                                     !.i = 1, !.pc = "split_page"]
    /\ UNCHANGED written

\* lines 145-155: one page: a writer holding that page alone, written to
\* out_dir / f"{base_name}_page_{i+1}.pdf"; after the last page, return the list
SplitPage ==
    /\ call.pc = "split_page"
    /\ LET out_filename == PageFile(call.out, Stem(call.paths[1]), call.i - 1)
           can == CanOpenForWrite(written, out_filename)
           added == Logged(call, "add_page", call.paths[1], call.reader[call.i].no)
       IN  \E outcome \in IF can THEN {"ok", "add_page", "write"} ELSE {"add_page", "open"} :
           LET c == IF outcome = "add_page" THEN added
                    ELSE Logged(added, "write", out_filename, 0)
           IN
              /\ written' = CASE outcome = "ok" ->
                                   WriteFile(written, out_filename,
                                             PdfFile(<<call.reader[call.i]>>))
                              [] outcome = "write" ->
                                   WriteFile(written, out_filename, PartialFile)
                              [] OTHER -> written
              /\ call' = IF outcome # "ok" THEN SplitFailed(c, outcome)
                         ELSE LET g == [c EXCEPT !.generated = Append(@, out_filename),
                                                 !.i = @ + 1]
                              IN  IF call.i = Len(call.reader)
                                  THEN Returned(g, g.generated) ELSE g

(***************************************************************************)
(* PDFManager.rotate_pdf (actions.py 161-189).                             *)
(***************************************************************************)
RotateFailed(c, what) ==
    Raised(c, PDFActionError("Failed to rotate PDF: ", Exc("Exception", <<what>>, <<>>)))

\* a variant that reduces the angle modulo 360 before applying it
RotatedMutNormalized(page, rotation) == [page EXCEPT !.rot = @ + (rotation % 360)]

\* page.rotate(rotation): the page turned by that angle more
Rotated(page, rotation) == [page EXCEPT !.rot = @ + rotation]

\* lines 170-173: validate the input
RotateStart(file_path, output_path, rotation) ==
    /\ call.pc = "idle"
    /\ LET r == validate_pdf(written, file_path)
           c == [Started("rotate_pdf") EXCEPT !.paths = <<file_path>>,
                                              !.out = output_path,
                                              !.rotation = rotation,
                                              !.file_type = "pdf",
                                              !.inspected = <<file_path>>]
       IN  call' = IF ~r.ok
                   THEN Raised(c, PDFActionError("Validation failed: ", r.err))
                   ELSE [c EXCEPT !.validated = <<file_path>>, !.pc = "rotate_read"]
    /\ UNCHANGED written

\* lines 176-179: reader = PdfReader(file_path); writer = PdfWriter(); reader.pages
RotateRead ==
    /\ call.pc = "rotate_read"
    /\ LET path == call.paths[1]
           c == Logged(call, "read", path, 0)
       IN  \E raise \in LibRaises(~IsFile(written, path) \/ ~Entry(written, path).parses) :
              call' = IF raise THEN RotateFailed(c, "read")
                      ELSE [c EXCEPT !.reader = Entry(written, path).pages, !.i = 1,
                                     !.pc = IF Entry(written, path).pages = <<>>
                                            THEN "rotate_write" ELSE "rotate_page"]
    /\ UNCHANGED written

\* lines 179-181: page.rotate(rotation); writer.add_page(page)
RotatePage ==
    /\ call.pc = "rotate_page"
    /\ LET page == call.reader[call.i]
           c == Logged(call, "rotate", call.paths[1], call.rotation)
       IN  \E outcome \in {"ok", "rotate", "add_page"} :
              call' = CASE outcome = "rotate" -> RotateFailed(c, "rotate")
                        [] outcome = "add_page" ->
                             RotateFailed(Logged(c, "add_page", call.paths[1], page.no),
                                          "add_page")
                        [] OTHER ->
                             [Logged(c, "add_page", call.paths[1], page.no)
                                EXCEPT !.writer = Append(@, Rotated(page, call.rotation)),
                                       !.i = @ + 1,
                                       !.pc = IF call.i = Len(call.reader)
                                              THEN "rotate_write" ELSE "rotate_page"]
    /\ UNCHANGED written

\* a variant that creates the parent directory before writing, as the other
\* operations do
RotateWriteMutMkdir ==
    /\ call.pc = "rotate_write"
    /\ LET m == Mkdir(written, Parent(call.out))
           c == Logged(call, "write", call.out, 0)
           can == CanOpenForWrite(m.w, call.out)
       IN  \E raise \in LibRaises(~can) :
              /\ written' = IF ~can THEN m.w
                            ELSE WriteFile(m.w, call.out,
                                           IF raise THEN PartialFile
                                           ELSE PdfFile(call.writer))
              /\ call' = IF raise THEN RotateFailed(c, IF can THEN "write" ELSE "open")
                         ELSE Returned(c, <<call.out>>)

\* a variant that writes the rotated document over its input
RotateWriteMutInPlace ==
    /\ call.pc = "rotate_write"
    /\ LET c == Logged(call, "write", call.paths[1], 0)
           can == CanOpenForWrite(written, call.paths[1])
       IN  \E raise \in LibRaises(~can) :
              /\ written' = IF ~can THEN written
                            ELSE WriteFile(written, call.paths[1],
                                           IF raise THEN PartialFile
                                           ELSE PdfFile(call.writer))
              /\ call' = IF raise THEN RotateFailed(c, IF can THEN "write" ELSE "open")
                         ELSE Returned(c, <<call.out>>)

\* lines 183-187: with open(output_path, "wb") as f: writer.write(f); no mkdir
RotateWrite ==
    /\ call.pc = "rotate_write"
    /\ LET c == Logged(call, "write", call.out, 0)
           can == CanOpenForWrite(written, call.out)
       IN  \E raise \in LibRaises(~can) :
              /\ written' = IF ~can THEN written
                            ELSE WriteFile(written, call.out,
                                           IF raise THEN PartialFile
                                           ELSE PdfFile(call.writer))
              /\ call' = IF raise THEN RotateFailed(c, IF can THEN "write" ELSE "open")
                         ELSE Returned(c, <<call.out>>)

\* the lists of paths the list operations are called with
PdfLists == Lists(PdfCandidates, MaxLen)

ImageLists == Lists(ImageCandidates, MaxLen)

MixedLists == Lists(PdfCandidates \cup ImageCandidates, MaxLen)

\* no call is in progress
Idle == call.pc = "idle"

Next ==
    \/ Idle /\ \E p \in ValidatorInputs : ValidateFile(p) /\ UNCHANGED others
    \/ Idle /\ \E p \in ValidatorInputs : ValidatePdf(p) /\ UNCHANGED others
    \/ Idle /\ \E p \in ValidatorInputs : ValidateImage(p) /\ UNCHANGED others
    \/ Idle /\ \E l \in MixedLists, t \in FileTypes : ValidatePaths(l, t) /\ UNCHANGED others
    \/ Idle /\ \E l \in PdfLists, o \in OutPaths : MergeStart(l, o) /\ UNCHANGED others
    \/ MergeAppend /\ UNCHANGED others
    \/ MergeMkdir /\ UNCHANGED others
    \/ MergeWrite /\ UNCHANGED others
    \/ MergeClose /\ UNCHANGED others
    \/ MergeExcept /\ UNCHANGED others
    \/ Idle /\ \E l \in ImageLists, o \in OutPaths : ConvertStart(l, o) /\ UNCHANGED others
    \/ ConvertOpen /\ UNCHANGED others
    \/ ConvertConvert /\ UNCHANGED others
    \/ ConvertMkdir /\ UNCHANGED others
    \/ ConvertSave /\ UNCHANGED others
    \/ ConvertClose /\ UNCHANGED others
    \/ Idle /\ \E p \in PdfCandidates, d \in OutDirs : SplitStart(p, d) /\ UNCHANGED others
    \/ SplitMkdir /\ UNCHANGED others
    \/ SplitRead /\ UNCHANGED others
    \/ SplitPage /\ UNCHANGED others
    \/ Idle /\ \E p \in PdfCandidates, o \in OutPaths, r \in Rotations : RotateStart(p, o, r) /\ UNCHANGED others
    \/ RotateRead /\ UNCHANGED others
    \/ RotatePage /\ UNCHANGED others
    \/ RotateWrite /\ UNCHANGED others

Spec == Init /\ [][Next]_vars

(***************************************************************************)
(* Two invocations at once.  PDFManager has only static methods and no     *)
(* module or class attribute (actions.py 16-18): what an invocation works  *)
(* on is in its own frame, here its call record.  `call` is the invocation *)
(* that is running and `parked` the one that is waiting; a switch between  *)
(* two steps changes which one runs.  Both work on the same filesystem.    *)
(***************************************************************************)
\* inputs and outputs of the paired invocations: two documents, two images,
\* two output names in a directory that exists and in one that is missing
\* together with its parent
PairPdfs == {<<D_in, N_a_pdf>>, <<D_in, N_b_pdf>>}

PairImages == {<<D_in, N_p_png>>, <<D_in, N_q_PNG>>}

PairOutPaths ==
    {<<D_out, N_out_pdf>>, <<D_new, D_sub, N_out_pdf>>, <<D_new, D_sub, N_a_pdf>>}

PairOutDirs == {<<D_out>>, <<D_new, D_sub>>}

PairRotations == {90}

\* the files split_pdf generates for the document at file_path
PageOuts(file_path, output_dir) ==
    {PageFile(output_dir, Stem(file_path), j - 1) :
        j \in 1..Len(Disk0[file_path].pages)}

\* the input and output files of an invocation
CallFiles(c) ==
    {c.paths[k] : k \in 1..Len(c.paths)}
    \cup (CASE c.op = "none" -> {}
            [] c.op = "split_pdf" -> PageOuts(c.paths[1], c.out)
            [] OTHER -> {c.out})

\* the invocation that starts works on other files than the one waiting
DisjointFiles == CallFiles(call') \cap CallFiles(parked) = {}

\* the scheduler lets the waiting invocation run
Switch ==
    /\ parked.pc # "done"
    /\ call.pc # "idle" \/ parked.pc # "idle"
    /\ call' = parked
    /\ parked' = call
    /\ UNCHANGED <<written, tools_page, file_list, reference>>

NextPair ==
    \/ Idle /\ \E p \in PairPdfs, o \in PairOutPaths :
                  MergeStart(<<p>>, o) /\ DisjointFiles /\ UNCHANGED others
    \/ MergeAppend /\ UNCHANGED others
    \/ MergeMkdir /\ UNCHANGED others
    \/ MergeWrite /\ UNCHANGED others
    \/ MergeClose /\ UNCHANGED others
    \/ MergeExcept /\ UNCHANGED others
    \/ Idle /\ \E p \in PairImages, o \in PairOutPaths :
                  ConvertStart(<<p>>, o) /\ DisjointFiles /\ UNCHANGED others
    \/ ConvertOpen /\ UNCHANGED others
    \/ ConvertConvert /\ UNCHANGED others
    \/ ConvertMkdir /\ UNCHANGED others
    \/ ConvertSave /\ UNCHANGED others
    \/ ConvertClose /\ UNCHANGED others
    \/ Idle /\ \E p \in PairPdfs, d \in PairOutDirs :
                  SplitStart(p, d) /\ DisjointFiles /\ UNCHANGED others
    \/ SplitMkdir /\ UNCHANGED others
    \/ SplitRead /\ UNCHANGED others
    \/ SplitPage /\ UNCHANGED others
    \/ Idle /\ \E p \in PairPdfs, o \in PairOutPaths, r \in PairRotations :
                  RotateStart(p, o, r) /\ DisjointFiles /\ UNCHANGED others
    \/ RotateRead /\ UNCHANGED others
    \/ RotatePage /\ UNCHANGED others
    \/ RotateWrite /\ UNCHANGED others
    \/ Switch

SpecPair == Init /\ [][NextPair]_vars

(***************************************************************************)
(* ToolsPage (ui/pages/tools_page.py): the handlers of the two buttons.    *)
(* A dialog returns the path chosen or, when cancelled, the empty string,  *)
(* here the empty path.  A handler runs in the event loop, so the          *)
(* operation it invokes ends before anything else happens on the tools_page.     *)
(***************************************************************************)
\* what the user may choose in the dialogs: two documents, a file that is
\* no PDF, a missing file; for the output an existing directory, a missing
\* one, a regular file, a read-only directory
ToolFiles ==
    {<<D_in, N_a_pdf>>, <<D_in, N_b_pdf>>, <<D_probe, Str(2), N_a_pdf>>, <<D_out, N_a_pdf>>}

ToolDirs == {<<D_out>>, <<D_new, D_sub>>, <<D_in, N_b_pdf>>, <<D_ro>>}

ToolOutputs == {<<D_out, N_out_pdf>>, <<D_new, D_sub, N_out_pdf>>, <<D_ro, N_out_pdf>>}

\* the values of the three radio buttons
RadioValues == {90, 180, 270}

\* the dialog was cancelled
Cancelled == <<>>

\* tkinter.messagebox.showinfo / showerror: one modal message
Message(kind, title, text) == [kind |-> kind, title |-> title, text |-> text]

\* lines 31-37: a radio button sets rotation_var
SelectRotation(v) ==
    /\ tools_page.pc = "idle"
    /\ tools_page.rotation_var # v
    /\ tools_page' = [tools_page EXCEPT !.rotation_var = v]
    /\ UNCHANGED <<written, call, parked, file_list, reference>>

\* lines 22, 39: a button starts its handler
Click(handler) ==
    /\ tools_page.pc = "idle"
    /\ tools_page' = [tools_page EXCEPT !.pc = "ask_file", !.handler = handler]
    /\ UNCHANGED <<written, call, parked, file_list, reference>>

\* lines 43-45, 58-60: file = askopenfilename(...); if not file: return
AskOpenFilename(answer) ==
    /\ tools_page.pc = "ask_file"
    /\ tools_page' = [tools_page EXCEPT !.file = answer,
                            !.pc = IF answer = Cancelled THEN "returned" ELSE "ask_output"]
    /\ UNCHANGED <<written, call, parked, file_list, reference>>

\* lines 47-49, 62-64: the second dialog, askdirectory or asksaveasfilename;
\* if not answered: return
AskOutput(answer) ==
    /\ tools_page.pc = "ask_output"
    /\ tools_page' = [tools_page EXCEPT !.output = answer,
                            !.pc = IF answer = Cancelled THEN "returned" ELSE "invoke"]
    /\ UNCHANGED <<written, call, parked, file_list, reference>>

\* lines 52, 67: the handler calls the operation
Invoke ==
    /\ tools_page.pc = "invoke"
    /\ IF tools_page.handler = "run_split"
       THEN SplitStart(tools_page.file, tools_page.output)
       ELSE RotateStart(tools_page.file, tools_page.output, tools_page.rotation_var)
    /\ tools_page' = [tools_page EXCEPT !.pc = "in_call", !.invoked = @ + 1]
    /\ UNCHANGED <<parked, file_list, reference>>

\* a variant whose handler catches PDFActionError only
ShownMutActionErrorOnly(handler, c) ==
    IF c.status = "returned"
    THEN <<Message("info", "Success",
                   IF handler = "run_split"
                   THEN <<"Split into ">> \o Str(Len(c.value)) \o <<" pages successfully!">>
                   ELSE <<"PDF Rotated successfully!">>)>>
    ELSE IF c.err.exc = "PDFActionError"
    THEN <<Message("error", "Error", c.err.text)>>
    ELSE <<>>

\* lines 53-55, 68-70: the messages shown once the operation has ended as c:
\* showinfo after a return, showerror("Error", str(e)) for any Exception
Shown(handler, c) ==
    IF c.status = "returned"
    THEN <<Message("info", "Success",
                   IF handler = "run_split"
                   THEN <<"Split into ">> \o Str(Len(c.value)) \o <<" pages successfully!">>
                   ELSE <<"PDF Rotated successfully!">>)>>
    ELSE <<Message("error", "Error", c.err.text)>>

\* lines 53-55, 68-70: the operation has ended; show the message and return
Show ==
    /\ tools_page.pc = "in_call"
    /\ call.pc = "done"
    /\ tools_page' = [tools_page EXCEPT !.pc = "returned",
                            !.messages = @ \o Shown(tools_page.handler, call)]
    /\ UNCHANGED <<written, call, parked, file_list, reference>>

NextTools ==
    \/ \E v \in RadioValues : SelectRotation(v)
    \/ \E h \in {"run_split", "run_rotate"} : Click(h)
    \/ \E f \in ToolFiles \cup {Cancelled} : AskOpenFilename(f)
    \/ \E o \in (IF tools_page.handler = "run_split" THEN ToolDirs ELSE ToolOutputs)
                    \cup {Cancelled} : AskOutput(o)
    \/ Invoke
    \/ SplitMkdir /\ UNCHANGED others
    \/ SplitRead /\ UNCHANGED others
    \/ SplitPage /\ UNCHANGED others
    \/ RotateRead /\ UNCHANGED others
    \/ RotatePage /\ UNCHANGED others
    \/ RotateWrite /\ UNCHANGED others
    \/ Show

SpecTools == Init /\ [][NextTools]_vars

(***************************************************************************)
(* FileList (ui/components/file_list.py).  A FileItem is a widget: two     *)
(* items are the same only if they are the same object, whatever their     *)
(* paths; `id` stands for the object.  `reference` is a plain sequence of  *)
(* paths kept next to the list: the entry at position k of the list        *)
(* corresponds to position k of the sequence.                              *)
(***************************************************************************)
\* the longest list built
MaxItems == 3

\* the paths added
ListPaths == {<<D_in, N_a_pdf>>, <<D_in, N_b_pdf>>, <<D_in, N_z_pdf>>}

\* lines 11-13: FileItem(master, path, ...): a new object holding the path
FileItem(id, path) == [id |-> id, path |-> path]

\* an item that was removed from the list before
Destroyed == FileItem(0, <<D_in, N_a_pdf>>)

\* an object that is none of the items of the list
FreshId(items) ==
    CHOOSE n \in 1..(Len(items) + 1) : \A k \in 1..Len(items) : items[k].id # n

\* a variant that compares items by their paths
SameItemMutByPath(a, b) == a.path = b.path

\* the == of two widgets: object identity
SameItem(a, b) == a.id = b.id

\* item in self.file_items
Contains(items, item) == \E k \in 1..Len(items) : SameItem(items[k], item)

\* self.file_items.index(item), counted from 1: the first position holding it
Index(items, item) ==
    CHOOSE k \in 1..Len(items) :
        SameItem(items[k], item) /\ \A j \in 1..(k - 1) : ~SameItem(items[j], item)

\* the sequence without its k-th entry
DeleteAt(seq, k) == SubSeq(seq, 1, k - 1) \o SubSeq(seq, k + 1, Len(seq))

\* the sequence with its entries i and j exchanged
Swapped(seq, i, j) == [seq EXCEPT ![i] = seq[j], ![j] = seq[i]]

\* item.destroy(): the widget leaves the display
Unpacked(packed, item) == SelectSeq(packed, LAMBDA id : id # item.id)

\* lines 76-81: _repack_all: the display follows file_items
Repacked(items) == [k \in 1..Len(items) |-> items[k].id]

\* lines 47-52
add_file(path) ==
    /\ Len(file_list.file_items) < MaxItems
    /\ LET item == FileItem(FreshId(file_list.file_items), path)
       IN  file_list' = [file_items |-> Append(file_list.file_items, item),
                         packed |-> Append(file_list.packed, item.id)]
    /\ UNCHANGED <<written, call, parked, tools_page>>

\* lines 54-58: list.remove deletes the first entry equal to the item
remove_item(item) ==
    /\ file_list' = IF Contains(file_list.file_items, item)
                    THEN [file_items |-> DeleteAt(file_list.file_items,
                                                  Index(file_list.file_items, item)),
                          packed |-> Unpacked(file_list.packed, item)]
                    ELSE file_list
    /\ UNCHANGED <<written, call, parked, tools_page>>

\* lines 60-67
move_up(item) ==
    /\ LET idx == Index(file_list.file_items, item)
           items == Swapped(file_list.file_items, idx, idx - 1)
       IN  file_list' = IF idx > 1
                        THEN [file_items |-> items, packed |-> Repacked(items)]
                        ELSE file_list
    /\ UNCHANGED <<written, call, parked, tools_page>>

\* lines 69-74
move_down(item) ==
    /\ LET idx == Index(file_list.file_items, item)
           items == Swapped(file_list.file_items, idx, idx + 1)
       IN  file_list' = IF idx < Len(file_list.file_items)
                        THEN [file_items |-> items, packed |-> Repacked(items)]
                        ELSE file_list
    /\ UNCHANGED <<written, call, parked, tools_page>>

\* lines 83-85
get_paths(items) == [k \in 1..Len(items) |-> items[k].path]

\* lines 87-91
clear ==
    /\ file_list' = [file_items |-> <<>>, packed |-> <<>>]
    /\ UNCHANGED <<written, call, parked, tools_page>>

\* the positions of the list
Positions == 1..Len(file_list.file_items)

\* each operation of the list next to its counterpart on the sequence; the
\* buttons of the k-th item call remove_item, move_up and move_down with it
NextList ==
    \/ \E p \in ListPaths : add_file(p) /\ reference' = Append(reference, p)
    \/ \E k \in Positions :
          remove_item(file_list.file_items[k]) /\ reference' = DeleteAt(reference, k)
    \/ remove_item(Destroyed) /\ reference' = reference
    \/ \E k \in Positions :
          /\ move_up(file_list.file_items[k])
          /\ reference' = IF k = 1 THEN reference ELSE Swapped(reference, k, k - 1)
    \/ \E k \in Positions :
          /\ move_down(file_list.file_items[k])
          /\ reference' = IF k = Len(reference) THEN reference
                          ELSE Swapped(reference, k, k + 1)
    \/ clear /\ reference' = <<>>

SpecList == Init /\ [][NextList]_vars

(***************************************************************************)
(* Properties.  Every behaviour is one call made on the initial            *)
(* filesystem Disk0, so what a call was given is read from Disk0 and what  *)
(* it left behind from `written`.                                          *)
(***************************************************************************)
Operations == {"merge_pdfs", "convert_images_to_pdf", "split_pdf", "rotate_pdf"}

Done == call.pc = "done"

ReturnedOk == Done /\ call.status = "returned"

RaisedErr == Done /\ call.status = "raised"

\* the fixed prefix of each operation's PDFActionError
OpPrefix(op) ==
    CASE op = "merge_pdfs" -> "Failed to merge PDFs: "
      [] op = "convert_images_to_pdf" -> "Failed to convert images to PDF: "
      [] op = "split_pdf" -> "Failed to split PDF: "
      [] op = "rotate_pdf" -> "Failed to rotate PDF: "

\* the validator an operation applies to its inputs rejects the path
InputRejected(op, p) ==
    IF op = "convert_images_to_pdf" THEN ~validate_image(<< >>, p).ok
    ELSE ~validate_pdf(<< >>, p).ok

IsAppend(e) == e.f = "append"

IsRotate(e) == e.f = "rotate"

IsAddPage(e) == e.f = "add_page"

\* the pages of the documents at `paths`, one document after the other
RECURSIVE ConcatPages(_)
ConcatPages(paths) ==
    IF paths = <<>> THEN <<>>
    ELSE Disk0[Head(paths)].pages \o ConcatPages(Tail(paths))

C2_EveryFailureWrapped ==
    (call.op \in Operations /\ RaisedErr /\ call.log # <<>>) =>
        /\ call.err.exc = "PDFActionError"
        /\ call.err.text[1] = OpPrefix(call.op)

\* C3: merge_pdfs appends its inputs in input order (what it has appended
\* is always a prefix of the input list), and when it returns it has made one
\* append per input, then the mkdir, one write to the output path and one
\* close, returns the output path, and the output holds the inputs' pages
\* concatenated in input order.
C3_MergeOrderPreserving ==
    call.op = "merge_pdfs" =>
        /\ LET a == SelectSeq(call.log, IsAppend)
           IN  /\ Len(a) <= Len(call.paths)
               /\ \A k \in 1..Len(a) : a[k].path = call.paths[k]
        /\ ReturnedOk =>
               /\ call.log = [k \in 1..Len(call.paths) |->
                                 LibCall("append", call.paths[k], 0)]
                             \o <<LibCall("mkdir", Parent(call.out), 0),
                                  LibCall("write", call.out, 0),
                                  LibCall("close", <<>>, 0)>>
               /\ call.value = <<call.out>>
               /\ IsFile(written, call.out)
               /\ Entry(written, call.out).pages = ConcatPages(call.paths)

\* C3: merge_pdfs has returned for the inputs [b.pdf, a.pdf, ...] of three
\* pages or more in all
C3_Witness ==
    /\ ReturnedOk
    /\ call.op = "merge_pdfs"
    /\ Len(call.paths) >= 2
    /\ call.paths[1] = <<D_in, N_b_pdf>>
    /\ call.paths[2] = <<D_in, N_a_pdf>>
    /\ SubSeq(Entry(written, call.out).pages, 1, 3) =
           <<Page(<<D_in, N_b_pdf>>, 1, 90), Page(<<D_in, N_a_pdf>>, 1, 0),
             Page(<<D_in, N_a_pdf>>, 2, 0)>>

\* C4: when split_pdf returns for an input of N pages it returns N paths,
\* the i-th being output_dir/{stem}_page_{i}.pdf and holding page i of the
\* input alone; for N = 0 it returns the empty list.
C4_SplitOnePerPage ==
    (call.op = "split_pdf" /\ ReturnedOk) =>
        LET src == Disk0[call.paths[1]].pages
        IN  /\ Len(call.value) = Len(src)
            /\ \A i \in 1..Len(src) :
                  /\ call.value[i] =
                        Append(call.out,
                               Stem(call.paths[1]) \o <<"_", "p", "a", "g", "e", "_">>
                                   \o Str(i) \o <<".", "p", "d", "f">>)
                  /\ IsFile(written, call.value[i])
                  /\ Entry(written, call.value[i]).pages = <<src[i]>>
            /\ call.paths[1] = <<D_in, N_x_tar_pdf>> =>
                  Name(call.value[1]) = <<"x", ".", "t", "_", "p", "a", "g", "e", "_", "1",
                                          ".", "p", "d", "f">>

\* C4: split_pdf has returned the two page files of the two-page a.pdf
C4_Witness ==
    /\ ReturnedOk
    /\ call.op = "split_pdf"
    /\ call.paths = <<<<D_in, N_a_pdf>>>>
    /\ call.out = <<D_new, D_sub>>
    /\ Len(call.value) = 2
    /\ Name(call.value[2]) = <<"a", "_", "p", "a", "g", "e", "_", "2", ".", "p", "d", "f">>

\* C5: every page.rotate call of rotate_pdf carries the caller's angle as
\* given, and when rotate_pdf returns it has rotated each page of the source
\* once, added the pages in source order, written as many pages as the source
\* has, each turned by the angle, and returns the output path.
C5_RotateEveryPage ==
    call.op = "rotate_pdf" =>
        /\ \A j \in 1..Len(call.log) :
              call.log[j].f = "rotate" => call.log[j].arg = call.rotation
        /\ ReturnedOk =>
              LET src == Disk0[call.paths[1]].pages
                  rot == SelectSeq(call.log, IsRotate)
                  add == SelectSeq(call.log, IsAddPage)
                  outp == Entry(written, call.out).pages
              IN  /\ Len(rot) = Len(src)
                  /\ Len(add) = Len(src)
                  /\ \A k \in 1..Len(src) : add[k].arg = src[k].no
                  /\ Len(outp) = Len(src)
                  /\ \A k \in 1..Len(src) :
                        outp[k] = Page(src[k].src, src[k].no, src[k].rot + call.rotation)
                  /\ call.value = <<call.out>>

\* C5: rotate_pdf has returned for the two-page a.pdf and the angle -90
C5_Witness ==
    /\ ReturnedOk
    /\ call.op = "rotate_pdf"
    /\ call.paths = <<<<D_in, N_a_pdf>>>>
    /\ call.rotation = -90
    /\ Entry(written, call.out).pages =
           <<Page(<<D_in, N_a_pdf>>, 1, -90), Page(<<D_in, N_a_pdf>>, 2, -90)>>

\* C6: convert_images_to_pdf ends in PDFActionError "No valid images
\* provided." exactly when its input list is empty.
C6_NoImagesIffEmpty ==
    (call.op = "convert_images_to_pdf" /\ Done) =>
        ((call.status = "raised"
             /\ call.err = Exc("PDFActionError", <<"No valid images provided.">>, <<>>))
         <=> call.paths = <<>>)

\* C6: convert_images_to_pdf called with the empty list has raised
C6_Witness ==
    /\ RaisedErr
    /\ call.op = "convert_images_to_pdf"
    /\ call.paths = <<>>
    /\ call.err.text = <<"No valid images provided.">>

\* the number of channels of a colour mode
Channels(mode) ==
    CASE mode = "RGB" -> 3
      [] mode = "RGBA" -> 4
      [] mode = "CMYK" -> 4
      [] mode = "L" -> 1
      [] mode = "P" -> 1

\* C7: convert_images_to_pdf calls convert on a decoded image exactly when
\* the image is not 3-channel: an Image.open that was followed by anything is
\* followed by a convert of the same image iff the image's mode does not have
\* three channels, every convert follows the open of that image, and every
\* image in the list to save is 3-channel.
C7_ConvertIffNotThreeChannel ==
    call.op = "convert_images_to_pdf" =>
        /\ \A j \in 1..Len(call.log) :
              (call.log[j].f = "open" /\ j < Len(call.log)) =>
                  ((call.log[j + 1].f = "convert" /\ call.log[j + 1].path = call.log[j].path)
                   <=> Channels(Disk0[call.log[j].path].mode) # 3)
        /\ \A j \in 1..Len(call.log) :
              call.log[j].f = "convert" =>
                  /\ j > 1
                  /\ call.log[j - 1] = LibCall("open", call.log[j].path, 0)
                  /\ Channels(Disk0[call.log[j].path].mode) # 3
        /\ \A k \in 1..Len(call.images) :
              /\ Channels(call.handles[call.images[k]].mode) = 3
              /\ call.handles[call.images[k]].via = "convert"
                    <=> Channels(Disk0[call.validated[k]].mode) # 3

\* C7: a 3-channel image and a greyscale image have been decoded, the first
\* kept as it is and the second converted
C7_Witness ==
    /\ ReturnedOk
    /\ call.op = "convert_images_to_pdf"
    /\ call.paths = <<<<D_in, N_q_PNG>>, <<D_in, N_r_jpg>>>>
    /\ call.handles[call.images[1]].via = "open"
    /\ call.handles[call.images[2]].via = "convert"

\* C8: merge_pdfs with an empty list never appends; when it returns it has
\* made the mkdir, one write and one close, the output path holds a document
\* of no pages and is the value returned; it raises only when one of those
\* three calls does.
C8_MergeEmptyList ==
    (call.op = "merge_pdfs" /\ call.paths = <<>>) =>
        /\ SelectSeq(call.log, IsAppend) = <<>>
        /\ ReturnedOk =>
              /\ call.log = <<LibCall("mkdir", Parent(call.out), 0),
                              LibCall("write", call.out, 0),
                              LibCall("close", <<>>, 0)>>
              /\ call.value = <<call.out>>
              /\ IsFile(written, call.out)
              /\ Entry(written, call.out) = PdfFile(<<>>)
        /\ RaisedErr =>
              /\ call.err.text[1] = "Failed to merge PDFs: "
              /\ call.err.text[2] \in {"mkdir", "write", "close"}

\* C8: merge_pdfs of the empty list has returned, under directories it created
C8_Witness ==
    /\ ReturnedOk
    /\ call.op = "merge_pdfs"
    /\ call.paths = <<>>
    /\ call.out = <<D_new, D_sub, N_out_pdf>>
    /\ IsDir(written, <<D_new, D_sub>>)

\* the image type a file name's extension stands for
NameType(name) ==
    CASE name \in {N_p_png, N_q_PNG, N_w_png} -> "png"
      [] name \in {N_r_jpg, N_t_Jpg, N_s_jpeg} -> "jpeg"
      [] OTHER -> "none"

TypeSignature(type) == IF type = "png" THEN SigPNG ELSE SigJPEG

\* C9 as stated: validate_pdf returns True exactly for existing regular files
\* whose first 4 bytes are %PDF, and raises FileValidationError otherwise.
C9_AsStated ==
    (call.op = "validate_pdf" /\ Done) =>
        LET p == call.paths[1]
        IN  /\ call.status = "returned" <=>
                  /\ p \in DOMAIN Disk0
                  /\ Disk0[p].kind = "file"
                  /\ Take(Disk0[p].bytes, 4) = <<37, 80, 68, 70>>
            /\ call.status # "returned" =>
                  call.status = "raised" /\ call.err.exc = "FileValidationError"

\* C9, amended: validate_pdf returns True exactly for existing regular files
\* that can be opened and read and whose first 4 bytes are %PDF, and raises
\* FileValidationError otherwise (files shorter than 4 bytes included); what
\* follows the 4th byte has no part in the result.
C9_ValidatePdfExact ==
    (call.op = "validate_pdf" /\ Done) =>
        LET p == call.paths[1]
        IN  /\ call.status = "returned" <=>
                  /\ p \in DOMAIN Disk0
                  /\ Disk0[p].kind = "file"
                  /\ Disk0[p].perm
                  /\ Take(Disk0[p].bytes, 4) = <<37, 80, 68, 70>>
            /\ call.status # "returned" =>
                  call.status = "raised" /\ call.err.exc = "FileValidationError"

\* C9: validate_pdf has returned True for a file holding %PDF and a zero byte
C9_Witness ==
    /\ ReturnedOk
    /\ call.op = "validate_pdf"
    /\ call.paths = <<<<D_probe, Str(5), N_a_pdf>>>>
    /\ Disk0[call.paths[1]].bytes = <<37, 80, 68, 70, 0>>

\* C10 as stated: validate_image returns True exactly when the file exists,
\* its extension, case ignored, is png, jpg or jpeg, and its leading bytes are
\* that type's signature; otherwise it raises FileValidationError.
C10_AsStated ==
    (call.op = "validate_image" /\ Done) =>
        LET p == call.paths[1]
            type == NameType(Name(p))
        IN  /\ call.status = "returned" <=>
                  /\ p \in DOMAIN Disk0
                  /\ Disk0[p].kind = "file"
                  /\ type # "none"
                  /\ StartsWith(Disk0[p].bytes, TypeSignature(type))
            /\ call.status # "returned" =>
                  call.status = "raised" /\ call.err.exc = "FileValidationError"

\* C10, amended: validate_image returns True exactly when the file exists,
\* can be opened and read, its extension, case ignored, is png, jpg or jpeg,
\* and its leading bytes are that type's signature; otherwise (an unsupported
\* extension or the other type's signature included) it raises
\* FileValidationError.
C10_ValidateImageExact ==
    (call.op = "validate_image" /\ Done) =>
        LET p == call.paths[1]
            type == NameType(Name(p))
        IN  /\ call.status = "returned" <=>
                  /\ p \in DOMAIN Disk0
                  /\ Disk0[p].kind = "file"
                  /\ Disk0[p].perm
                  /\ type # "none"
                  /\ StartsWith(Disk0[p].bytes, TypeSignature(type))
            /\ call.status # "returned" =>
                  call.status = "raised" /\ call.err.exc = "FileValidationError"

\* C10: validate_image has returned True for q.PNG holding the PNG signature
C10_Witness ==
    /\ ReturnedOk
    /\ call.op = "validate_image"
    /\ call.paths = <<<<D_probe, Str(8), N_q_PNG>>>>
    /\ Disk0[call.paths[1]].bytes = <<137, 80, 78, 71, 13, 10, 26, 10>>

\* the outcome of the validator validate_paths selects for file_type
TypeValidator(file_type, p) ==
    IF file_type = "pdf" THEN validate_pdf(<< >>, p) ELSE validate_image(<< >>, p)

\* the positions of `paths` whose path the validator of file_type rejects
InvalidAt(file_type, paths) ==
    {k \in 1..Len(paths) : ~TypeValidator(file_type, paths[k]).ok}

\* C11: validate_paths with file_type 'pdf' or 'image' checks the paths in
\* input order and stops at the first invalid one: the error raised is that
\* path's error and no later path is inspected; when every path is valid it
\* returns the same paths in the same order.
C11_StopsAtFirstInvalid ==
    (call.op = "validate_paths" /\ Done /\ call.file_type \in {"pdf", "image"}) =>
        LET bad == InvalidAt(call.file_type, call.paths)
        IN  IF bad = {}
            THEN /\ call.status = "returned"
                 /\ call.value = call.paths
                 /\ call.inspected = call.paths
            ELSE LET k == CHOOSE k \in bad : \A j \in bad : k <= j
                 IN  /\ call.status = "raised"
                     /\ call.err = TypeValidator(call.file_type, call.paths[k]).err
                     /\ call.inspected = SubSeq(call.paths, 1, k)

\* two invalid paths with different errors: the first one's error is raised
\* and the second path is not inspected
C11_Witness ==
    /\ call.op = "validate_paths" /\ RaisedErr
    /\ call.file_type = "pdf"
    /\ Len(call.paths) = 2
    /\ InvalidAt("pdf", call.paths) = {1, 2}
    /\ validate_pdf(<< >>, call.paths[1]).err # validate_pdf(<< >>, call.paths[2]).err
    /\ call.err = validate_pdf(<< >>, call.paths[1]).err
    /\ call.inspected = <<call.paths[1]>>

\* C12: validate_file raises FileValidationError for every path that does
\* not exist and for every existing path that is not a regular file (a
\* directory), and returns True for every existing regular file, whatever
\* its content, extension or permissions.
C12_ValidateFileExact ==
    (call.op = "validate_file" /\ Done) =>
        LET p == call.paths[1]
        IN  IF p \in DOMAIN Disk0 /\ Disk0[p].kind = "file"
            THEN call.status = "returned" /\ call.value = <<TRUE>>
            ELSE /\ call.status = "raised"
                 /\ call.err.exc = "FileValidationError"
                 /\ call.err.about = p
                 /\ call.err.text = IF p \in DOMAIN Disk0
                                    THEN <<"Path is not a file: ">>
                                    ELSE <<"File not found: ">>

\* an unreadable regular file without content is accepted
C12_Witness ==
    /\ call.op = "validate_file" /\ ReturnedOk
    /\ Disk0[call.paths[1]].bytes = <<>>
    /\ ~Disk0[call.paths[1]].perm

\* the directory an operation writes its output into
OutputDir ==
    IF call.op = "split_pdf" THEN call.out ELSE Parent(call.out)

\* the longest prefix of p that exists before the call
RECURSIVE NearestExisting(_)
NearestExisting(p) ==
    IF Exists(<< >>, p) THEN p ELSE NearestExisting(Parent(p))

\* before the call p is a directory, or is missing below a directory that
\* allows creating entries
Creatable(p) ==
    LET a == NearestExisting(p)
    IN  IsDir(<< >>, a) /\ (a = p \/ Disk0[a].perm)

IsWrite(e) == e.f \in {"write", "save"}

\* C13: in merge, convert and split the output directory exists when the
\* output is written: every write follows the mkdir of the output directory,
\* that mkdir creates a missing directory together with its missing
\* ancestors, and no write is attempted while the directory is missing.
C13_OutputDirExistsAtWrite ==
    (call.op \in {"merge_pdfs", "convert_images_to_pdf", "split_pdf"}) =>
        /\ (\/ call.pc \in {"merge_write", "convert_save", "split_page"}
            \/ \E j \in 1..Len(call.log) : IsWrite(call.log[j]))
           => \A n \in 0..Len(OutputDir) : IsDir(written, SubSeq(OutputDir, 1, n))
        /\ \A j \in 1..Len(call.log) :
              IsWrite(call.log[j])
              => \E i \in 1..(j - 1) : call.log[i] = LibCall("mkdir", OutputDir, 0)
        /\ (Creatable(OutputDir) /\ \E j \in 1..Len(call.log) : call.log[j].f = "mkdir")
           => IsDir(written, OutputDir)

\* images converted into a directory that was missing together with its
\* parent: both were created and the document is in it
C13_Witness ==
    /\ call.op = "convert_images_to_pdf" /\ ReturnedOk
    /\ Len(OutputDir) = 2
    /\ ~Exists(<< >>, SubSeq(OutputDir, 1, 1))
    /\ IsDir(written, SubSeq(OutputDir, 1, 1))
    /\ IsDir(written, OutputDir)
    /\ IsFile(written, call.out)

IsSave(e) == e.f = "save"

\* C14: a successful convert_images_to_pdf on N >= 1 images saves exactly
\* once, with the first image as the base and the other N-1 images appended;
\* the document has one page per input image in input order, and the call
\* returns the output path.
C14_ConvertSavesOnceInOrder ==
    (call.op = "convert_images_to_pdf" /\ ReturnedOk) =>
        LET N == Len(call.paths)
            saves == {j \in 1..Len(call.log) : IsSave(call.log[j])}
        IN  /\ N >= 1
            /\ Cardinality(saves) = 1
            /\ \A j \in saves : call.log[j] = LibCall("save", call.out, N - 1)
            /\ IsFile(written, call.out)
            /\ Entry(written, call.out).pages = [k \in 1..N |-> Page(call.paths[k], 1, 0)]
            /\ call.value = <<call.out>>

\* two different images, the second one converted to RGB, in one document
C14_Witness ==
    /\ call.op = "convert_images_to_pdf" /\ ReturnedOk
    /\ Len(call.paths) = 2
    /\ call.paths[1] # call.paths[2]
    /\ Disk0[call.paths[1]].mode = "RGB"
    /\ Disk0[call.paths[2]].mode # "RGB"
    /\ Len(Entry(written, call.out).pages) = 2

\* C15: when a step of merge_pdfs after validation fails (an append, the
\* mkdir, the write), the merger is closed before the error is raised, an
\* error of that close is swallowed, and the call raises PDFActionError
\* "Failed to merge PDFs: " carrying the step's own error.
C15_MergeFailureClosesMerger ==
    (call.op = "merge_pdfs" /\ RaisedErr /\ call.log # <<>>) =>
        LET n == Len(call.log)
        IN  /\ n >= 2
            /\ call.log[n].f = "close"
            /\ call.log[n].arg \in {0, 1}
            /\ call.log[n - 1].f \in {"append", "mkdir", "write", "close"}
            /\ call.err.exc = "PDFActionError"
            /\ call.err.text = <<"Failed to merge PDFs: ", call.log[n - 1].f>>

\* an append failed and the close that followed failed too: the append's
\* error is the one reported
C15_Witness ==
    /\ call.op = "merge_pdfs" /\ RaisedErr
    /\ Len(call.log) >= 2
    /\ call.log[Len(call.log)] = LibCall("close", <<>>, 1)
    /\ call.log[Len(call.log) - 1].f = "append"
    /\ call.err.text = <<"Failed to merge PDFs: ", "append">>

\* C16: whenever convert_images_to_pdf returns successfully every image
\* decoded during the call has been closed: each image opened from an input
\* file, including one replaced by its converted RGB copy, and the copy.
C16_AllImagesReleasedOnSuccess ==
    (call.op = "convert_images_to_pdf" /\ ReturnedOk) =>
        \A h \in 1..Len(call.handles) : call.handles[h].closes >= 1

\* C17: every decoded image handle is closed exactly once however
\* convert_images_to_pdf exits: when decoding the k-th image or saving fails,
\* the images already opened are closed before the error reaches the caller,
\* and no handle is closed twice.
C17_HandlesReleasedExactlyOnce ==
    (call.op = "convert_images_to_pdf" /\ Done) =>
        \A h \in 1..Len(call.handles) : call.handles[h].closes = 1

\* C18: for every file_type, every path validate_paths returns was passed to
\* validate_pdf or validate_image and accepted by it.
C18_EveryReturnedPathValidated ==
    (call.op = "validate_paths" /\ ReturnedOk) =>
        \A k \in 1..Len(call.value) :
            /\ \E j \in 1..Len(call.inspected) : call.inspected[j] = call.value[k]
            /\ validate_pdf(<< >>, call.value[k]).ok \/ validate_image(<< >>, call.value[k]).ok

\* the validator of the operation rejects one of its input paths
AnyInputRejected ==
    \E k \in 1..Len(call.paths) : InputRejected(call.op, call.paths[k])

\* C19: validation precedes every effect: in each of the four operations an
\* input path that fails validation means no library call is made, no
\* directory is created and no file is written; a library call or a change
\* of the disk happens only once every input path (for merge_pdfs the whole
\* list) has passed validation.
C19_ValidationPrecedesEffects ==
    (call.op \in Operations) =>
        /\ AnyInputRejected => (call.log = <<>> /\ written = << >>)
        /\ (call.log # <<>> \/ written # << >>)
           => (call.validated = call.paths /\ call.inspected = call.paths)

\* merge_pdfs of a valid document followed by an invalid one: no append of
\* the first, nothing created
C19_Witness ==
    /\ call.op = "merge_pdfs" /\ RaisedErr
    /\ Len(call.paths) = 2
    /\ ~InputRejected("merge_pdfs", call.paths[1])
    /\ Disk0[call.paths[1]].parses
    /\ InputRejected("merge_pdfs", call.paths[2])
    /\ call.out = <<D_new, D_sub, N_out_pdf>>
    /\ call.log = <<>>
    /\ written = << >>

\* the step whose failure a raised call reports
FailedStep == call.err.text[Len(call.err.text)]

\* C20: rotate_pdf never creates a directory: with a valid input and an
\* output path whose parent directory does not exist it raises PDFActionError
\* "Failed to rotate PDF: ", the parent is still missing and nothing was
\* written; merge, convert and split in the same situation create the
\* directory and never fail at the mkdir or at opening the output file.
C20_RotateNeverCreatesDir ==
    /\ (call.op = "rotate_pdf") =>
          /\ \A p \in DOMAIN written : written[p].kind = "file"
          /\ (Done /\ call.validated = call.paths /\ ~Exists(<< >>, Parent(call.out)))
             => /\ call.status = "raised"
                /\ call.err.exc = "PDFActionError"
                /\ call.err.text[1] = "Failed to rotate PDF: "
                /\ ~Exists(written, Parent(call.out))
                /\ written = << >>
    /\ (/\ call.op \in {"merge_pdfs", "convert_images_to_pdf", "split_pdf"}
        /\ ~Exists(<< >>, OutputDir) /\ Creatable(OutputDir)
        /\ RaisedErr /\ call.log # <<>>)
       => /\ FailedStep # "mkdir"
          /\ (call.op = "split_pdf") => FailedStep # "open"
          /\ (call.op # "split_pdf" /\ FailedStep \in {"write", "save"})
             => IsFile(written, call.out)

\* a valid document rotated into a missing directory: every page was rotated,
\* opening the output failed, the directory is still missing
C20_Witness ==
    /\ call.op = "rotate_pdf" /\ RaisedErr
    /\ call.validated = call.paths
    /\ call.out = <<D_new, D_sub, N_out_pdf>>
    /\ Len(call.writer) >= 1
    /\ call.err.text = <<"Failed to rotate PDF: ", "open">>
    /\ ~Exists(written, <<D_new, D_sub>>)
    /\ ~Exists(written, <<D_new>>)

\* the number of pages split_pdf started to process
PagesAttempted ==
    Cardinality({j \in 1..Len(call.log) : IsAddPage(call.log[j])})

\* the file split_pdf writes for page j of its input
PageOut(j) == PageFile(call.out, Stem(call.paths[1]), j - 1)

\* the file of page j holds page j of the input, completely written
PageWritten(j) ==
    /\ IsFile(written, PageOut(j))
    /\ Entry(written, PageOut(j)) = PdfFile(<<Disk0[call.paths[1]].pages[j]>>)

\* C21: split_pdf stops at the first error without recovery: when processing
\* page k fails, pages 1..k-1 have their files in output_dir, no page after
\* k was attempted or written, and the call raises PDFActionError "Failed to
\* split PDF: " instead of returning the paths generated so far.
C21_SplitStopsAtFirstError ==
    (call.op = "split_pdf" /\ Done /\ PagesAttempted >= 1 /\ ~PageWritten(PagesAttempted)) =>
        LET k == PagesAttempted
            N == Len(Disk0[call.paths[1]].pages)
        IN  /\ call.status = "raised"
            /\ call.err.exc = "PDFActionError"
            /\ call.err.text[1] = "Failed to split PDF: "
            /\ call.err.text[2] \in {"add_page", "open", "write"}
            /\ call.value = <<>>
            /\ k <= N
            /\ call.generated = [j \in 1..(k - 1) |-> PageOut(j)]
            /\ \A j \in 1..(k - 1) : PageWritten(j)
            /\ \A j \in (k + 1)..N : ~Exists(written, PageOut(j))

\* writing page 2 of a two-page document failed: the file of page 1 is
\* there, the call raised
C21_Witness ==
    /\ call.op = "split_pdf" /\ RaisedErr
    /\ PagesAttempted = 2
    /\ PageWritten(1)
    /\ IsFile(written, PageOut(2))
    /\ Entry(written, PageOut(2)) = PartialFile
    /\ call.err.text = <<"Failed to split PDF: ", "write">>

(***************************************************************************)
(* Two invocations: what each would do alone on the initial filesystem.    *)
(***************************************************************************)
BothDone == call.pc = "done" /\ parked.pc = "done"

OutputDirOf(c) == IF c.op = "split_pdf" THEN c.out ELSE Parent(c.out)

HasStep(c, fs) == \E j \in 1..Len(c.log) : c.log[j].f \in fs

\* the directories the invocation creates when it runs alone
SoloDirs(c) ==
    IF c.op # "rotate_pdf" /\ HasStep(c, {"mkdir"})
    THEN Mkdir(<< >>, OutputDirOf(c)).w
    ELSE << >>

\* the pages of the document the invocation writes when it runs alone
SoloPages(c) ==
    CASE c.op = "merge_pdfs" -> ConcatPages(c.paths)
      [] c.op = "convert_images_to_pdf" ->
             [k \in 1..Len(c.paths) |-> Page(c.paths[k], 1, 0)]
      [] c.op = "rotate_pdf" ->
             [k \in 1..Len(Disk0[c.paths[1]].pages) |->
                 Page(Disk0[c.paths[1]].pages[k].src, Disk0[c.paths[1]].pages[k].no,
                      Disk0[c.paths[1]].pages[k].rot + c.rotation)]

\* the page files split_pdf leaves when it runs alone and its steps end as
\* they did: complete files, and a partial one where a write failed
RECURSIVE SoloPageFiles(_, _)
SoloPageFiles(c, j) ==
    IF j = 0 THEN << >>
    ELSE LET p == PageFile(c.out, Stem(c.paths[1]), j - 1)
             last == j = Cardinality({i \in 1..Len(c.log) : IsAddPage(c.log[i])})
             rest == SoloPageFiles(c, j - 1)
         IN  IF last /\ c.status = "raised"
             THEN IF c.err.text[Len(c.err.text)] = "write"
                  THEN (p :> PartialFile) @@ rest ELSE rest
             ELSE (p :> PdfFile(<<Disk0[c.paths[1]].pages[j]>>)) @@ rest

\* the files the invocation leaves when it runs alone and its library calls
\* end as they did
SoloFiles(c) ==
    IF c.op = "split_pdf"
    THEN SoloPageFiles(c, Cardinality({i \in 1..Len(c.log) : IsAddPage(c.log[i])}))
    ELSE IF HasStep(c, {"write", "save"}) /\ CanOpenForWrite(SoloDirs(c), c.out)
    THEN (c.out :> IF c.status = "returned" \/ c.err.text[Len(c.err.text)] = "close"
                   THEN PdfFile(SoloPages(c)) ELSE PartialFile)
    ELSE << >>

SoloWritten(c) == SoloFiles(c) @@ SoloDirs(c)

\* the result of the finished invocation c is one it can have alone on the
\* initial filesystem: it fails where it must fail there, it does not fail
\* for a reason absent there, and it returns what it returns there
SoloResult(c) ==
    /\ (c.status = "raised" /\ c.log = <<>>)
       <=> \E k \in 1..Len(c.paths) : InputRejected(c.op, c.paths[k])
    /\ (c.op # "split_pdf" /\ HasStep(c, {"write", "save"})
        /\ ~CanOpenForWrite(SoloDirs(c), c.out))
       => c.status = "raised"
    /\ (c.status = "raised" /\ c.err.text[Len(c.err.text)] = "mkdir")
       => ~Mkdir(<< >>, OutputDirOf(c)).ok
    /\ (c.status = "raised" /\ c.op \in {"split_pdf", "rotate_pdf"}
        /\ c.err.text[Len(c.err.text)] = "open")
       => ~CanOpenForWrite(SoloDirs(c), c.out)
    /\ c.status = "returned"
       => c.value = IF c.op = "split_pdf"
                    THEN [j \in 1..Len(Disk0[c.paths[1]].pages) |->
                             PageFile(c.out, Stem(c.paths[1]), j - 1)]
                    ELSE <<c.out>>

RotateDirsExist ==
    \A c \in {call, parked} :
        c.op = "rotate_pdf" => IsDir(<< >>, Parent(c.out))

HandlerReturned == tools_page.pc = "returned"

\* both dialogs of the handler were answered
BothAnswered == tools_page.file # Cancelled /\ tools_page.output # Cancelled

\* C23: a run of run_split or run_rotate in which both dialogs are answered
\* invokes the operation exactly once and then shows exactly one modal
\* message: an error message with the string of the exception when the
\* operation raised, a success message otherwise (for split with the number
\* of paths returned); when a dialog is cancelled no operation is invoked and
\* no message is shown.
C23_OneInvocationOneMessage ==
    /\ tools_page.invoked <= 1
    /\ Len(tools_page.messages) <= 1
    /\ tools_page.messages # <<>> => (call.pc = "done" /\ tools_page.invoked = 1)
    /\ tools_page.invoked = 0 => call = IdleCall
    /\ (HandlerReturned /\ BothAnswered) =>
          /\ tools_page.invoked = 1
          /\ call.op = IF tools_page.handler = "run_split" THEN "split_pdf" ELSE "rotate_pdf"
          /\ call.paths = <<tools_page.file>>
          /\ call.out = tools_page.output
          /\ (tools_page.handler = "run_rotate") => call.rotation = tools_page.rotation_var
          /\ Len(tools_page.messages) = 1
          /\ IF call.status = "raised"
             THEN tools_page.messages[1] = Message("error", "Error", call.err.text)
             ELSE /\ call.status = "returned"
                  /\ tools_page.messages[1].kind = "info"
                  /\ tools_page.messages[1].text =
                        IF tools_page.handler = "run_split"
                        THEN <<"Split into ">> \o Str(Len(Disk0[tools_page.file].pages))
                                 \o <<" pages successfully!">>
                        ELSE <<"PDF Rotated successfully!">>
    /\ (HandlerReturned /\ ~BothAnswered) =>
          /\ tools_page.invoked = 0
          /\ tools_page.messages = <<>>
          /\ written = << >>

\* run_split on a document with a regular file chosen as output directory:
\* the mkdir error, which is no PDFActionError, is shown as the one message
C23_Witness ==
    /\ HandlerReturned /\ BothAnswered
    /\ tools_page.handler = "run_split"
    /\ call.status = "raised"
    /\ call.err.exc = "OSError"
    /\ tools_page.messages = <<Message("error", "Error", call.err.text)>>

\* C24: whenever merge_pdfs raises, that call has not left a completely
\* written merged document at the output path, the case of a successful
\* write followed by a failing close of the merger included.
C24_FailedMergeLeavesNoDocument ==
    (call.op = "merge_pdfs" /\ RaisedErr) =>
        ~(/\ IsFile(written, call.out)
          /\ Entry(written, call.out) = PdfFile(ConcatPages(call.paths)))

(***************************************************************************)
(* The file list.                                                          *)
(***************************************************************************)
\* C25: the file list refines a plain sequence: after any sequence of
\* add_file, remove_item, move_up, move_down and clear, get_paths is the
\* sequence obtained by append-at-end, delete-that-entry,
\* swap-with-predecessor (nothing for the first entry), swap-with-successor
\* (nothing for the last entry) and empty; no entry is lost or duplicated,
\* equal paths stay separate entries, and the display follows the list.
C25_FileListRefinesSequence ==
    /\ get_paths(file_list.file_items) = reference
    /\ \A i, j \in Positions :
          file_list.file_items[i].id = file_list.file_items[j].id => i = j
    /\ file_list.packed = Repacked(file_list.file_items)

\* the same path twice with another path between, the second of the two
\* equal entries first moved: the list shows b, a, a only if that entry and
\* not its twin moved
C25_Witness ==
    /\ Len(file_list.file_items) = 3
    /\ get_paths(file_list.file_items) = <<<<D_in, N_b_pdf>>, <<D_in, N_a_pdf>>, <<D_in, N_a_pdf>>>>
    /\ file_list.file_items[1].id = 2
    /\ file_list.file_items[2].id = 3
    /\ file_list.file_items[3].id = 1
    /\ reference = get_paths(file_list.file_items)

\* the paths the call may write a document to
OutputsOf(c) ==
    IF c.op = "split_pdf"
    THEN IF IsFile(<< >>, c.paths[1]) THEN PageOuts(c.paths[1], c.out) ELSE {}
    ELSE {c.out}

\* C26: no operation modifies or deletes its input files: in every call of
\* merge, convert, split or rotate whose output paths differ from all its
\* input paths, no input path is written, created or replaced, before or
\* after the call ends and whether it returns or raises; whatever existed
\* before the call is changed only if it is an output path; the validators
\* change nothing at all.
C26_InputsUntouched ==
    /\ (call.op \in {"validate_file", "validate_pdf", "validate_image", "validate_paths"})
       => written = << >>
    /\ (/\ call.op \in Operations
        /\ \A k \in 1..Len(call.paths) : call.paths[k] \notin OutputsOf(call))
       => /\ \A k \in 1..Len(call.paths) : call.paths[k] \notin DOMAIN written
          /\ \A p \in DOMAIN written : p \in DOMAIN Disk0 => p \in OutputsOf(call)

\* rotate_pdf failed while writing: a partial output is left, the input is
\* as it was
C26_Witness ==
    /\ call.op = "rotate_pdf" /\ RaisedErr
    /\ IsFile(written, call.out)
    /\ Entry(written, call.out) = PartialFile
    /\ call.paths[1] \notin DOMAIN written
    /\ Entry(written, call.paths[1]) = Disk0[call.paths[1]]

=============================================================================
